---- MODULE Spec2Model ----
(***************************************************************************)
(* The SFTP backend of S3QL (src/src/s3ql/backends/sftp.py): a key-value   *)
(* bucket laid out on a remote directory tree.                             *)
(*                                                                         *)
(* Strings are sequences of one-character strings, so that escaping,       *)
(* os.path.join, os.path.dirname and str.split are computed character by   *)
(* character as Python computes them.  The remote host is a tree of        *)
(* absolute paths (sequences of components); a path string handed to the   *)
(* session is resolved by the server against the session's start           *)
(* directory `home` unless it starts with "/".                             *)
(***************************************************************************)
EXTENDS Integers, Sequences, FiniteSets, TLC

VARIABLES
    fs,       \* the remote host: [dirs: set of absolute paths, files: path -> bytes]
    home,     \* the directory the server resolves the session's relative paths against
    handle,   \* TRUE once a Bucket object has been returned to the caller
    nops,     \* number of calls issued so far
    conn,     \* the Connection: [client, sftp: the clients made so far, by number; closed]
    made,     \* the session the Connection had when the Bucket was made
    last,     \* the last call and its outcome: [op, key, arg, session, err, ret, pre, effect]
    probe,    \* a function of the module applied on its own: [op, key, out]
    exp       \* contrib/expire_backups.py, simulate: [cycles, state, backup_list, n]

\* the state of a Connection, its Bucket and the host behind them
bucket_vars == <<fs, home, handle, conn, made, nops, last>>

\* the state used when a part of the program runs on its own
aside == <<probe, exp>>

vars == <<fs, home, handle, conn, made, nops, last, probe, exp>>

----------------------------------------------------------------------------
(* Bounds of the model.                                                    *)

\* calls issued in a run, after the construction of the Connection
MaxOps == 4

\* the largest age-range boundary given to expire_backups
MaxAge == 4

\* backups made in a run of expire_backups' simulate
MaxBackups == 7

\* length of the keys the codec and the path mapper are applied to on their own
MaxKeyLen == 3

\* length of the numeric suffixes of the bulk-data keys the path mapper is applied to
MaxSuffixLen == 7

----------------------------------------------------------------------------
(* Python string primitives.                                               *)

Slash == "/"
Marker == "="
\* the null character, one character of the key alphabet
Nul == "NUL"

S_dat == <<".", "d", "a", "t">>
S_meta == <<".", "m", "e", "t", "a">>
S_data_prefix == <<"s", "3", "q", "l", "_", "d", "a", "t", "a", "_">>
S_data_dir == <<"s", "3", "q", "l", "_", "d", "a", "t", "a">>

\* s[:n]
Take(s, n) == SubSeq(s, 1, IF n < Len(s) THEN n ELSE Len(s))

\* s[n:]
Drop(s, n) == SubSeq(s, n + 1, Len(s))

\* s.startswith(p)
StartsWith(s, p) == Len(s) >= Len(p) /\ SubSeq(s, 1, Len(p)) = p

\* s.endswith(p)
EndsWith(s, p) == Len(s) >= Len(p) /\ SubSeq(s, Len(s) - Len(p) + 1, Len(s)) = p

\* s.replace(pat, rep): non-overlapping occurrences, scanned left to right
RECURSIVE StrReplace(_, _, _)
StrReplace(s, pat, rep) ==
    IF Len(s) < Len(pat) THEN s
    ELSE IF StartsWith(s, pat)
         THEN rep \o StrReplace(Drop(s, Len(pat)), pat, rep)
         ELSE <<Head(s)>> \o StrReplace(Tail(s), pat, rep)

\* s.split('/'): the pieces between separators, empty pieces kept
\* (the piece being scanned starts at index start; i is the scan position)
RECURSIVE SplitFrom(_, _, _)
SplitFrom(s, start, i) ==
    IF i > Len(s) THEN <<SubSeq(s, start, Len(s))>>
    ELSE IF s[i] = Slash THEN <<SubSeq(s, start, i - 1)>> \o SplitFrom(s, i + 1, i + 1)
    ELSE SplitFrom(s, start, i + 1)

StrSplit(s) == SplitFrom(s, 1, 1)

\* s.rstrip('/')
RECURSIVE RStripSlash(_)
RStripSlash(s) ==
    IF s # <<>> /\ s[Len(s)] = Slash THEN RStripSlash(SubSeq(s, 1, Len(s) - 1)) ELSE s

\* posixpath.join(a, b)
Join2(a, b) ==
    IF b # <<>> /\ b[1] = Slash THEN b
    ELSE IF a = <<>> \/ a[Len(a)] = Slash THEN a \o b
    ELSE a \o <<Slash>> \o b

\* posixpath.join(*parts)
RECURSIVE JoinFrom(_, _)
JoinFrom(acc, parts) ==
    IF parts = <<>> THEN acc ELSE JoinFrom(Join2(acc, Head(parts)), Tail(parts))

os_path_join(parts) == JoinFrom(Head(parts), Tail(parts))

\* posixpath.dirname(p)
os_path_dirname(p) ==
    LET Stripped(head) ==
            IF head # <<>> /\ \E j \in 1..Len(head) : head[j] # Slash
            THEN RStripSlash(head)
            ELSE head
        UpTo(idx) ==
            Stripped(SubSeq(p, 1, IF idx = {} THEN 0
                                  ELSE CHOOSE j \in idx : \A h \in idx : h <= j))
    IN  UpTo({j \in 1..Len(p) : p[j] = Slash})

----------------------------------------------------------------------------
(* Key codec.                                                              *)

\* escape replacing the marker after the separator instead of before
escape_marker_late(s) ==
    StrReplace(StrReplace(StrReplace(s, <<Slash>>, <<Marker, "2", "F">>),
                          <<Marker>>, <<Marker, "3", "D">>),
               <<Nul>>, <<Marker, "0", "0">>)

\* escape leaving the marker as it is
escape_keeps_marker(s) ==
    StrReplace(StrReplace(s, <<Slash>>, <<Marker, "2", "F">>),
               <<Nul>>, <<Marker, "0", "0">>)

escape(s) ==
    StrReplace(StrReplace(StrReplace(s, <<Marker>>, <<Marker, "3", "D">>),
                          <<Slash>>, <<Marker, "2", "F">>),
               <<Nul>>, <<Marker, "0", "0">>)

unescape(s) ==
    StrReplace(StrReplace(StrReplace(s, <<Marker, "2", "F">>, <<Slash>>),
                          <<Marker, "0", "0">>, <<Nul>>),
               <<Marker, "3", "D">>, <<Marker>>)

----------------------------------------------------------------------------
(* The inputs explored.                                                    *)

K_a == <<"a">>
K_esc == <<"a", "/", "=">>
K_flat_data == S_data_dir
P_s4 == S_data_prefix \o <<"1", "2", "3", "4">>
K_s7 == S_data_prefix \o <<"1", "2", "3", "4", "5", "6", "7">>

\* three flat keys, and a key of the bulk-data namespace two shard directories deep
Keys == {K_a, K_esc, K_flat_data, K_s7}

\* no prefix, a flat prefix, the bulk-data prefix, and a prefix one shard directory deep
Prefixes == {<<>>, K_a, S_data_prefix, P_s4}

\* the key whose path is the path of K_a's data file
K_a_dat == K_a \o S_dat

\* the keys renamed: those stored, and K_a_dat
RenameSrcs == Keys \cup {K_a_dat}

\* the keys renamed to: a flat one, one whose shard directories may be missing,
\* and K_a_dat
RenameDests == {K_a, K_s7, K_a_dat}

\* keys that are never stored and are read only: one that differs from K_esc in
\* escaped characters only, K_a_dat, a flat key that spells a shard directory, and
\* a key of the bulk-data namespace named like one
Bystanders ==
    {<<"a", Marker, "2", "F", Marker>>, K_a_dat,
     S_data_dir \o <<Slash, "1", "2", "3">>, S_data_prefix \o <<"1", "2", "3">>}

\* a payload, and a shorter one with other bytes
Payloads == {<<7, 8>>, <<9>>}

Metas == {1, 2}

\* start directories of the session: the root, and a directory below it
Homes == {<<>>, <<<<"h">>>>}

\* the clients a Connection makes in a run, by number: the first, and the one
\* finish_fork makes
Clients == {1, 2}

----------------------------------------------------------------------------
(* Path mapper.                                                            *)

\* the bucket's name (Bucket.name)
BucketName == <<"b">>

\* range(0, n, 3) as a sequence
RECURSIVE RangeFrom(_, _, _)
RangeFrom(i, n, step) == IF i >= n THEN <<>> ELSE <<i>> \o RangeFrom(i + step, n, step)

\* key_to_path with a directory for every full 3-character step of the suffix
map_key_full_steps(key0) ==
    LET Sharded(key, no, steps) ==
            os_path_join(<<BucketName, S_data_dir>>
                         \o [j \in 1..Len(steps) |-> Take(no, steps[j])]
                         \o <<key>>)
        Numbered(key, no) == Sharded(key, no, RangeFrom(3, Len(no) + 1, 3))
        Escaped(key) ==
            IF ~StartsWith(key, S_data_prefix)
            THEN os_path_join(<<BucketName, key>>)
            ELSE Numbered(key, Drop(key, 10))
    IN  Escaped(escape(key0))

map_key(key0) ==
    LET Sharded(key, no, steps) ==
            os_path_join(<<BucketName, S_data_dir>>
                         \o [j \in 1..Len(steps) |-> Take(no, steps[j])]
                         \o <<key>>)
        Numbered(key, no) == Sharded(key, no, RangeFrom(0, Len(no), 3))
        Escaped(key) ==
            IF ~StartsWith(key, S_data_prefix)
            THEN os_path_join(<<BucketName, key>>)
            ELSE Numbered(key, Drop(key, 10))
    IN  Escaped(escape(key0))

\* map_key over the keys and prefixes explored, computed once
PathTable == [k \in Keys \cup Prefixes \cup RenameSrcs \cup Bystanders |-> map_key(k)]

\* Bucket.key_to_path
key_to_path(key) == PathTable[key]

----------------------------------------------------------------------------
(* The remote host behind the session.  An absolute path is a sequence of  *)
(* components; the root <<>> is a directory.                               *)

Parent(ap) == SubSeq(ap, 1, Len(ap) - 1)

Exists(f, ap) == ap \in f.dirs \/ ap \in DOMAIN f.files

ParentIsDir(f, ap) == ap # <<>> /\ Parent(ap) \in f.dirs

\* q lies strictly below directory d
Below(q, d) == Len(q) > Len(d) /\ SubSeq(q, 1, Len(d)) = d

Children(f, d) == {q \in f.dirs \cup DOMAIN f.files : Len(q) = Len(d) + 1 /\ Parent(q) = d}

\* how the server resolves a path string of the session
Resolve(p) ==
    (IF p # <<>> /\ p[1] = Slash THEN <<>> ELSE home)
        \o SelectSeq(StrSplit(p), LAMBDA c : c # <<>>)

WithoutFile(files, ap) == [q \in DOMAIN files \ {ap} |-> files[q]]

WithFile(files, ap, bytes) == [q \in DOMAIN files \cup {ap} |-> IF q = ap THEN bytes ELSE files[q]]

Result(f, e) == [fs |-> f, err |-> e]

sftp_stat(f, p) == IF Exists(f, Resolve(p)) THEN "ok" ELSE "NotFound"

sftp_mkdir(f, p) ==
    LET At(ap) ==
            IF Exists(f, ap) THEN Result(f, "AlreadyExists")
            ELSE IF ~ParentIsDir(f, ap) THEN Result(f, "NotFound")
            ELSE Result([f EXCEPT !.dirs = @ \cup {ap}], "ok")
    IN  At(Resolve(p))

sftp_rmdir(f, p) ==
    LET At(ap) ==
            IF ~Exists(f, ap) THEN Result(f, "NotFound")
            ELSE IF ap \notin f.dirs THEN Result(f, "Other")
            ELSE IF Children(f, ap) # {} THEN Result(f, "NotEmpty")
            ELSE Result([f EXCEPT !.dirs = @ \ {ap}], "ok")
    IN  At(Resolve(p))

sftp_remove(f, p) ==
    LET At(ap) ==
            IF ~Exists(f, ap) THEN Result(f, "NotFound")
            ELSE IF ap \in f.dirs THEN Result(f, "Other")
            ELSE Result([f EXCEPT !.files = WithoutFile(@, ap)], "ok")
    IN  At(Resolve(p))

\* moves a file, or a directory with everything below it
sftp_rename(f, old, new) ==
    LET Moved(q, a, b) == IF q = a \/ Below(q, a) THEN b \o SubSeq(q, Len(a) + 1, Len(q)) ELSE q
        At(a, b) ==
            IF ~Exists(f, a) THEN Result(f, "NotFound")
            ELSE IF Exists(f, b) \/ Below(b, a) THEN Result(f, "Other")
            ELSE IF ~ParentIsDir(f, b) THEN Result(f, "NotFound")
            ELSE Result([dirs  |-> {Moved(q, a, b) : q \in f.dirs},
                         files |-> [q \in {Moved(r, a, b) : r \in DOMAIN f.files}
                                      |-> f.files[Moved(q, b, a)]]],
                        "ok")
    IN  At(Resolve(old), Resolve(new))

\* open(path, 'w'): creates the file or truncates it
sftp_open_w(f, p) ==
    LET At(ap) ==
            IF ap \in f.dirs THEN Result(f, "Other")
            ELSE IF ~ParentIsDir(f, ap) THEN Result(f, "NotFound")
            ELSE Result([f EXCEPT !.files = WithFile(@, ap, <<>>)], "ok")
    IN  At(Resolve(p))

\* writing to a handle opened by sftp_open_w, then closing it
sftp_write(f, p, bytes) ==
    LET At(ap) == [f EXCEPT !.files = WithFile(@, ap, f.files[ap] \o bytes)]
    IN  At(Resolve(p))

\* open(path, 'r') and reading to the end
sftp_open_r(f, p) ==
    LET At(ap) ==
            IF ~Exists(f, ap) THEN [err |-> "NotFound", bytes |-> <<>>]
            ELSE IF ap \in f.dirs THEN [err |-> "Other", bytes |-> <<>>]
            ELSE [err |-> "ok", bytes |-> f.files[ap]]
    IN  At(Resolve(p))

\* a set as a sequence, in the order the server happens to list it
RECURSIVE SetToSeq(_)
SetToSeq(S) ==
    IF S = {} THEN <<>>
    ELSE LET From(x) == <<x>> \o SetToSeq(S \ {x})
         IN  From(CHOOSE y \in S : TRUE)

sftp_listdir_attr(f, p) ==
    LET At(ap) ==
            IF ap \notin f.dirs THEN [err |-> "NotFound", entries |-> <<>>]
            ELSE [err |-> "ok",
                  entries |-> SetToSeq({[filename |-> q[Len(q)],
                                         isdir    |-> q \in f.dirs,
                                         st_size  |-> IF q \in f.dirs THEN 0 ELSE Len(f.files[q])]
                                        : q \in Children(f, ap)})]
    IN  At(Resolve(p))

\* pickle.dump(metadata, dest, 2): protocol header, the record, STOP
pickle_dump(metadata) == <<128, 2, metadata, 46>>

pickle_load(bytes) ==
    IF Len(bytes) = 4 /\ bytes[1] = 128 /\ bytes[2] = 2 /\ bytes[4] = 46
    THEN [err |-> "ok", value |-> bytes[3]]
    ELSE [err |-> "Other", value |-> 0]

----------------------------------------------------------------------------
(* Connection.                                                             *)

\* Connection.__contains__
conn_contains(f, entry) == sftp_stat(f, entry) = "ok"

\* '%s/%s' % (a, b)
SlashJoin(a, b) == a \o <<Slash>> \o b

\* the outcome r of one removal call issued on fullname when the host held f,
\* with the call logged: its kind, the entry it names, and whether that entry
\* had nothing below it at that moment
Issued(r, call, f, fullname) ==
    [fs |-> r.fs, err |-> r.err,
     log |-> <<[call |-> call, path |-> Resolve(fullname),
                empty |-> Children(f, Resolve(fullname)) = {}]>>]

\* an outcome reached without a removal call
NoCalls(f, e) == [fs |-> f, err |-> e, log |-> <<>>]

\* the outcome r2 of the calls made after those of r1
After(r1, r2) == [fs |-> r2.fs, err |-> r2.err, log |-> r1.log \o r2.log]

\* _rmtree's loop removing a subdirectory at once, without the recursive call
RECURSIVE rmtree_loop_flat(_, _, _)
rmtree_loop_flat(f, path, entries) ==
    IF entries = <<>> THEN NoCalls(f, "ok")
    ELSE LET Rest(r) ==
                 IF r.err # "ok" THEN r
                 ELSE After(r, rmtree_loop_flat(r.fs, path, Tail(entries)))
             Entry(attr, fullname) ==
                 IF attr.isdir
                 THEN Issued(sftp_rmdir(f, fullname), "rmdir", f, fullname)
                 ELSE Issued(sftp_remove(f, fullname), "remove", f, fullname)
         IN  Rest(Entry(Head(entries), SlashJoin(path, Head(entries).filename)))

RECURSIVE rmtree(_, _)

\* _rmtree's loop removing a subdirectory before the recursive call on it
RECURSIVE rmtree_loop_rmdir_first(_, _, _)
rmtree_loop_rmdir_first(f, path, entries) ==
    IF entries = <<>> THEN NoCalls(f, "ok")
    ELSE LET Rest(r) ==
                 IF r.err # "ok" THEN r
                 ELSE After(r, rmtree_loop_rmdir_first(r.fs, path, Tail(entries)))
             Removed(r, fullname) ==
                 IF r.err # "ok" THEN r ELSE After(r, rmtree(r.fs, fullname))
             Entry(attr, fullname) ==
                 IF attr.isdir
                 THEN Removed(Issued(sftp_rmdir(f, fullname), "rmdir", f, fullname), fullname)
                 ELSE Issued(sftp_remove(f, fullname), "remove", f, fullname)
         IN  Rest(Entry(Head(entries), SlashJoin(path, Head(entries).filename)))

\* the for loop of Connection._rmtree over the entries listed
RECURSIVE rmtree_loop(_, _, _)
rmtree_loop(f, path, entries) ==
    IF entries = <<>> THEN NoCalls(f, "ok")
    ELSE LET Rest(r) ==
                 IF r.err # "ok" THEN r
                 ELSE After(r, rmtree_loop(r.fs, path, Tail(entries)))
             Emptied(r, fullname) ==
                 IF r.err # "ok" THEN r
                 ELSE After(r, Issued(sftp_rmdir(r.fs, fullname), "rmdir", r.fs, fullname))
             Entry(attr, fullname) ==
                 IF attr.isdir
                 THEN Emptied(rmtree(f, fullname), fullname)
                 ELSE Issued(sftp_remove(f, fullname), "remove", f, fullname)
         IN  Rest(Entry(Head(entries), SlashJoin(path, Head(entries).filename)))

\* Connection._rmtree
rmtree(f, path) ==
    LET Listed(l) ==
            IF l.err # "ok" THEN NoCalls(f, l.err) ELSE rmtree_loop(f, path, l.entries)
    IN  Listed(sftp_listdir_attr(f, path))

\* delete_bucket purging whatever `recursive` says
delete_bucket_always_purges(f, name, recursive) ==
    IF ~conn_contains(f, name) THEN NoCalls(f, "KeyError")
    ELSE LET Purged(r) ==
                 IF r.err # "ok" THEN r
                 ELSE After(r, Issued(sftp_rmdir(r.fs, name), "rmdir", r.fs, name))
         IN  Purged(rmtree(f, name))

\* Connection.delete_bucket
delete_bucket(f, name, recursive) ==
    IF ~conn_contains(f, name) THEN NoCalls(f, "KeyError")
    ELSE LET Purged(r) ==
                 IF r.err # "ok" THEN r
                 ELSE After(r, Issued(sftp_rmdir(r.fs, name), "rmdir", r.fs, name))
         IN  Purged(IF recursive THEN rmtree(f, name) ELSE NoCalls(f, "ok"))

\* Connection.get_bucket: "ok" when a Bucket is returned
get_bucket(f, name) == IF ~conn_contains(f, name) THEN "KeyError" ELSE "ok"

\* Connection.create_bucket
create_bucket(f, name) ==
    LET Made(r) == IF r.err # "ok" THEN r ELSE Result(r.fs, get_bucket(r.fs, name))
    IN  Made(sftp_mkdir(f, name))

----------------------------------------------------------------------------
(* Bucket.                                                                 *)

\* Bucket.clear
clear(f) == rmtree(f, BucketName)

\* Bucket.contains
contains(f, key) == conn_contains(f, key_to_path(key) \o S_dat)

\* Bucket.raw_lookup
raw_lookup(f, key) ==
    LET Loaded(m) == [err |-> m.err, metadata |-> m.value]
        Opened(src) ==
            IF src.err = "NotFound" THEN [err |-> "KeyError", metadata |-> 0]
            ELSE IF src.err # "ok" THEN [err |-> src.err, metadata |-> 0]
            ELSE Loaded(pickle_load(src.bytes))
    IN  Opened(sftp_open_r(f, key_to_path(key) \o S_meta))

\* delete removing the data file only
delete_keeps_meta(f, key, force) ==
    LET Raised(r) ==
            IF r.err = "NotFound" THEN Result(r.fs, IF force THEN "ok" ELSE "KeyError") ELSE r
    IN  Raised(sftp_remove(f, key_to_path(key) \o S_dat))

\* Bucket.delete
delete(f, key, force) ==
    LET Raised(r) ==
            IF r.err = "NotFound" THEN Result(r.fs, IF force THEN "ok" ELSE "KeyError") ELSE r
        Removed(r, path) ==
            IF r.err = "ok" THEN sftp_remove(r.fs, path \o S_meta) ELSE r
        At(path) == Raised(Removed(sftp_remove(f, path \o S_dat), path))
    IN  At(key_to_path(key))

\* Bucket._makedirs
RECURSIVE makedirs_loop(_, _, _, _)
makedirs_loop(f, cur0, els, done) ==
    IF els = <<>>
    THEN Result(f, IF done THEN "ok" ELSE "AlreadyExists")
    ELSE LET Made(r, cur) ==
                 IF r.err # "ok" THEN r ELSE makedirs_loop(r.fs, cur, Tail(els), TRUE)
             At(cur) ==
                 IF ~conn_contains(f, cur)
                 THEN Made(sftp_mkdir(f, cur), cur)
                 ELSE makedirs_loop(f, cur, Tail(els), done)
         IN  At(SlashJoin(cur0, Head(els)))

makedirs(f, path) == makedirs_loop(f, <<Slash>>, StrSplit(path), FALSE)

\* the paths of the directory entries subs of base
SubPaths(base, subs) == [j \in 1..Len(subs) |-> SlashJoin(base, subs[j].filename)]

\* Bucket._walk: the sequence of (base, files) it yields until the work list is
\* empty, or until listing a directory fails
RECURSIVE walk_loop(_, _, _)
walk_loop(f, to_visit, yielded) ==
    IF to_visit = <<>> THEN [err |-> "ok", yielded |-> yielded]
    ELSE LET Yield(base, rest, subs, fils) ==
                 walk_loop(f,
                           rest \o SubPaths(base, subs),
                           Append(yielded,
                                  [base  |-> base,
                                   files |-> [j \in 1..Len(fils) |-> fils[j].filename]]))
             Listed(base, rest, l) ==
                 IF l.err # "ok" THEN [err |-> l.err, yielded |-> yielded]
                 ELSE Yield(base, rest,
                            SelectSeq(l.entries, LAMBDA a : a.isdir),
                            SelectSeq(l.entries, LAMBDA a : ~a.isdir))
             Visit(base, rest) == Listed(base, rest, sftp_listdir_attr(f, base))
         IN  Visit(to_visit[Len(to_visit)], SubSeq(to_visit, 1, Len(to_visit) - 1))

walk(f, base) == walk_loop(f, <<base>>, <<>>)

RECURSIVE Flatten(_)
Flatten(ss) == IF ss = <<>> THEN <<>> ELSE Head(ss) \o Flatten(Tail(ss))

\* Bucket.list: the keys it yields, and the error that ends it early, if any
list(f, prefix) ==
    LET Keyed(dats) == [j \in 1..Len(dats) |-> unescape(SubSeq(dats[j], 1, Len(dats[j]) - 4))]
        Named(names) == Keyed(SelectSeq(names, LAMBDA n : EndsWith(n, S_dat)))
        Walked(w) ==
            [err  |-> w.err,
             keys |-> SelectSeq(Named(Flatten([j \in 1..Len(w.yielded) |-> w.yielded[j].files])),
                                LAMBDA k : prefix = <<>> \/ StartsWith(k, prefix))]
    IN  Walked(walk(f, IF prefix # <<>> THEN os_path_dirname(key_to_path(prefix))
                       ELSE BucketName))

\* the st_size of the entries, added up
RECURSIVE SumSizes(_)
SumSizes(as) == IF as = <<>> THEN 0 ELSE Head(as).st_size + SumSizes(Tail(as))

\* get_size's loop adding up every file, metadata files too
RECURSIVE get_size_loop_all_files(_, _, _)
get_size_loop_all_files(f, to_visit, size) ==
    IF to_visit = <<>> THEN [err |-> "ok", size |-> size]
    ELSE LET Listed(base, rest, l) ==
                 IF l.err # "ok" THEN [err |-> l.err, size |-> size]
                 ELSE get_size_loop_all_files(
                          f,
                          rest \o SubPaths(base, SelectSeq(l.entries, LAMBDA a : a.isdir)),
                          size + SumSizes(SelectSeq(l.entries, LAMBDA a : ~a.isdir)))
             Visit(base, rest) == Listed(base, rest, sftp_listdir_attr(f, base))
         IN  Visit(to_visit[Len(to_visit)], SubSeq(to_visit, 1, Len(to_visit) - 1))

\* Bucket.get_size
RECURSIVE get_size_loop(_, _, _)
get_size_loop(f, to_visit, size) ==
    IF to_visit = <<>> THEN [err |-> "ok", size |-> size]
    ELSE LET Listed(base, rest, l) ==
                 IF l.err # "ok" THEN [err |-> l.err, size |-> size]
                 ELSE get_size_loop(
                          f,
                          rest \o SubPaths(base, SelectSeq(l.entries, LAMBDA a : a.isdir)),
                          size + SumSizes(SelectSeq(l.entries,
                                                    LAMBDA a : ~a.isdir
                                                               /\ EndsWith(a.filename, S_dat))))
             Visit(base, rest) == Listed(base, rest, sftp_listdir_attr(f, base))
         IN  Visit(to_visit[Len(to_visit)], SubSeq(to_visit, 1, Len(to_visit) - 1))

get_size(f) == get_size_loop(f, <<BucketName>>, 0)

\* Bucket.raw_fetch
raw_fetch(f, key) ==
    LET Fail(e) == [err |-> e, payload |-> <<>>, metadata |-> 0]
        Loaded(src, m) ==
            IF m.err # "ok" THEN Fail(m.err)
            ELSE [err |-> "ok", payload |-> src.bytes, metadata |-> m.value]
        Opened(src, msrc) ==
            IF src.err = "NotFound" \/ (src.err = "ok" /\ msrc.err = "NotFound")
            THEN Fail("KeyError")
            ELSE IF src.err # "ok" THEN Fail(src.err)
            ELSE IF msrc.err # "ok" THEN Fail(msrc.err)
            ELSE Loaded(src, pickle_load(msrc.bytes))
        At(path) == Opened(sftp_open_r(f, path \o S_dat), sftp_open_r(f, path \o S_meta))
    IN  At(key_to_path(key))

\* raw_store opening the data file again whatever made the first open fail
raw_store_retries_any(f, key, payload, metadata) ==
    LET Logged(r, log) == [fs |-> r.fs, err |-> r.err, log |-> log]
        Meta(o, path, log) ==
            IF o.err # "ok" THEN Logged(o, log)
            ELSE Logged(Result(sftp_write(o.fs, path \o S_meta, pickle_dump(metadata)), "ok"),
                        log)
        Data(dest, path) ==
            IF dest.err # "ok" THEN dest
            ELSE Meta(sftp_open_w(sftp_write(dest.fs, path \o S_dat, payload), path \o S_meta),
                      path, dest.log)
        Reopened(o, log) == Logged(o, Append(log, <<"open_dat", o.err>>))
        Retry(mk, path, log) ==
            IF mk.err # "ok" THEN Logged(mk, Append(log, <<"makedirs", mk.err>>))
            ELSE Reopened(sftp_open_w(mk.fs, path \o S_dat),
                          Append(log, <<"makedirs", mk.err>>))
        Opened(o, path) ==
            IF o.err = "ok" THEN Logged(o, <<<<"open_dat", o.err>>>>)
            ELSE Retry(makedirs(f, os_path_dirname(path)), path, <<<<"open_dat", o.err>>>>)
        At(path) == Data(Opened(sftp_open_w(f, path \o S_dat), path), path)
    IN  At(key_to_path(key))

\* Bucket.raw_store; log is the sequence of its opens of the data file and of its
\* calls of _makedirs, each with its outcome
raw_store(f, key, payload, metadata) ==
    LET Logged(r, log) == [fs |-> r.fs, err |-> r.err, log |-> log]
        Meta(o, path, log) ==
            IF o.err # "ok" THEN Logged(o, log)
            ELSE Logged(Result(sftp_write(o.fs, path \o S_meta, pickle_dump(metadata)), "ok"),
                        log)
        Data(dest, path) ==
            IF dest.err # "ok" THEN dest
            ELSE Meta(sftp_open_w(sftp_write(dest.fs, path \o S_dat, payload), path \o S_meta),
                      path, dest.log)
        Reopened(o, log) == Logged(o, Append(log, <<"open_dat", o.err>>))
        Retry(mk, path, log) ==
            IF mk.err # "ok" THEN Logged(mk, Append(log, <<"makedirs", mk.err>>))
            ELSE Reopened(sftp_open_w(mk.fs, path \o S_dat),
                          Append(log, <<"makedirs", mk.err>>))
        Opened(o, path) ==
            IF o.err # "NotFound" THEN Logged(o, <<<<"open_dat", o.err>>>>)
            ELSE Retry(makedirs(f, os_path_dirname(path)), path, <<<<"open_dat", o.err>>>>)
        At(path) == Data(Opened(sftp_open_w(f, path \o S_dat), path), path)
    IN  At(key_to_path(key))

\* Bucket.rename; local_exists is what os.path.exists(src_path + '.dat') answers
\* about the file system of the machine the caller runs on
rename(f, src, dest, local_exists) ==
    LET Retry(mk, src_path, dest_path) ==
            IF mk.err # "ok" THEN mk ELSE sftp_rename(mk.fs, src_path, dest_path)
        Renamed(r, src_path, dest_path) ==
            IF r.err # "NotFound" THEN r
            ELSE Retry(makedirs(f, os_path_dirname(dest_path)), src_path, dest_path)
        At(src_path, dest_path) ==
            IF ~local_exists THEN Result(f, "KeyError")
            ELSE Renamed(sftp_rename(f, src_path, dest_path), src_path, dest_path)
    IN  At(key_to_path(src), key_to_path(dest))

----------------------------------------------------------------------------
(* The state machine: one action per call of the API.  Each action is the  *)
(* whole call; `last` keeps the call, its outcome, and what the bucket     *)
(* held when the call was issued.                                          *)

\* the keys whose data file exists
Present(f) == {k \in Keys : contains(f, k)}

\* the keys of which f holds an object: a data file and a metadata file that fetch
\* returns
Stored(f) == {k \in Keys : raw_fetch(f, k).err = "ok"}

\* a Bucket keeping the session of the time it was made
bucket_sftp_at_init(c, at_init) == at_init

\* the session a Bucket method reaches through self.conn.sftp: that of the
\* Connection now, whatever it was when the Bucket was made
bucket_sftp(c, at_init) == c.sftp

\* the call returns before it uses any session
NoSession == 0

\* the record of a call made through session s that leaves the remote as f2 and
\* the handle as h2
Call(op, key, arg, s, err, ret, f2, h2) ==
    [op      |-> op,
     key     |-> key,
     arg     |-> arg,
     session |-> s,
     err     |-> err,
     ret     |-> ret,
     pre     |-> [keys |-> Present(fs), objects |-> Stored(fs),
                  bucket |-> conn_contains(fs, BucketName)],
     effect  |-> (f2 # fs \/ h2 # handle)]

\* A call that changed neither the remote nor the handle is explored as the last
\* call of a run: the calls that follow it reach what they reach without it.
Open == last.effect /\ nops < MaxOps

\* a call that may change the remote, made through session s, returns r; on a
\* session that was closed the transport fails
Returned(op, key, arg, s, r) ==
    /\ IF s \in conn.closed
       THEN /\ fs' = fs
            /\ last' = Call(op, key, arg, s, "Closed", <<>>, fs, handle)
       ELSE /\ fs' = r.fs
            /\ last' = Call(op, key, arg, s, r.err,
                            IF "log" \in DOMAIN r THEN r.log ELSE <<>>, r.fs, handle)
    /\ nops' = nops + 1
    /\ UNCHANGED <<home, handle, conn, made>>
    /\ UNCHANGED aside

\* a call of a Bucket that only reads answers ret, or fails with err
Answered(op, key, err, ret) ==
    /\ IF bucket_sftp(conn, made) \in conn.closed
       THEN last' = Call(op, key, <<>>, bucket_sftp(conn, made), "Closed", <<>>, fs, handle)
       ELSE last' = Call(op, key, <<>>, bucket_sftp(conn, made), err, ret, fs, handle)
    /\ nops' = nops + 1
    /\ UNCHANGED <<fs, home, handle, conn, made>>
    /\ UNCHANGED aside

\* no function is being applied on its own
NoProbe == [op |-> "none", key |-> <<>>, out |-> <<>>]

\* no call has been made
NoCall ==
    [op |-> "init", key |-> <<>>, arg |-> <<>>, session |-> NoSession, err |-> "ok",
     ret |-> <<>>, pre |-> [keys |-> {}, objects |-> {}, bucket |-> FALSE],
     effect |-> TRUE]

\* expire_backups is not running
NoExpire == [cycles |-> <<>>, state |-> <<>>, backup_list |-> {}, n |-> 0]

\* Connection.__init__: the first client and its session
Init ==
    /\ probe = NoProbe
    /\ exp = NoExpire
    /\ home \in Homes
    /\ fs = [dirs |-> {SubSeq(home, 1, n) : n \in 0..Len(home)}, files |-> [q \in {} |-> <<>>]]
    /\ conn = [client |-> 1, sftp |-> 1, closed |-> {}]
    /\ handle = FALSE
    /\ made = NoSession
    /\ nops = 0
    /\ last = NoCall

CreateBucket ==
    /\ Open
    /\ LET Made(r, h) ==
               /\ fs' = r.fs
               /\ handle' = h
               /\ made' = IF r.err = "ok" THEN conn.sftp ELSE made
               /\ last' = Call("create_bucket", <<>>, <<>>, conn.sftp, r.err, <<>>, r.fs, h)
           Created(r) == Made(r, handle \/ r.err = "ok")
       IN  Created(IF conn.sftp \in conn.closed THEN Result(fs, "Closed")
                   ELSE create_bucket(fs, BucketName))
    /\ nops' = nops + 1
    /\ UNCHANGED <<home, conn>>
    /\ UNCHANGED aside

GetBucket ==
    /\ Open
    /\ LET Got(e, h) ==
               /\ handle' = h
               /\ made' = IF e = "ok" THEN conn.sftp ELSE made
               /\ last' = Call("get_bucket", <<>>, <<>>, conn.sftp, e, <<>>, fs, h)
           Looked(e) == Got(e, handle \/ e = "ok")
       IN  Looked(IF conn.sftp \in conn.closed THEN "Closed" ELSE get_bucket(fs, BucketName))
    /\ nops' = nops + 1
    /\ UNCHANGED <<fs, home, conn>>
    /\ UNCHANGED aside

DeleteBucket ==
    /\ Open
    /\ \E recursive \in BOOLEAN :
          Returned("delete_bucket", <<>>, [recursive |-> recursive], conn.sftp,
                   delete_bucket(fs, BucketName, recursive))

Store ==
    /\ Open
    /\ handle
    /\ \E key \in Keys, payload \in Payloads, metadata \in Metas :
          Returned("store", key, [payload |-> payload, metadata |-> metadata],
                   bucket_sftp(conn, made), raw_store(fs, key, payload, metadata))

Delete ==
    /\ Open
    /\ handle
    /\ \E key \in Keys, force \in BOOLEAN :
          Returned("delete", key, [force |-> force], bucket_sftp(conn, made),
                   delete(fs, key, force))

Rename ==
    /\ Open
    /\ handle
    /\ \E src \in RenameSrcs, dest \in RenameDests, local_exists \in BOOLEAN :
          Returned("rename", src, [dest |-> dest, local_exists |-> local_exists],
                   IF local_exists THEN bucket_sftp(conn, made) ELSE NoSession,
                   rename(fs, src, dest, local_exists))

Clear ==
    /\ Open
    /\ handle
    /\ Returned("clear", <<>>, <<>>, bucket_sftp(conn, made), clear(fs))

Contains ==
    /\ Open
    /\ handle
    /\ \E key \in Keys : Answered("contains", key, "ok", contains(fs, key))

Lookup ==
    /\ Open
    /\ handle
    /\ \E key \in Keys :
          LET Looked(r) == Answered("lookup", key, r.err, r.metadata)
          IN  Looked(raw_lookup(fs, key))

Fetch ==
    /\ Open
    /\ handle
    /\ \E key \in Keys :
          LET Got(r) ==
                  Answered("fetch", key, r.err, [payload |-> r.payload, metadata |-> r.metadata])
          IN  Got(raw_fetch(fs, key))

List ==
    /\ Open
    /\ handle
    /\ \E prefix \in Prefixes :
          LET Listed(r) == Answered("list", prefix, r.err, r.keys)
          IN  Listed(list(fs, prefix))

GetSize ==
    /\ Open
    /\ handle
    /\ LET Sized(r) == Answered("get_size", <<>>, r.err, r.size)
       IN  Sized(get_size(fs))

\* Connection.close and Connection.prepare_fork: the client is closed, and with
\* it its session; self.sftp still names that session
CloseClient ==
    /\ conn' = [conn EXCEPT !.closed = @ \cup {conn.client}]
    /\ UNCHANGED <<fs, home, handle, made, nops, last>>
    /\ UNCHANGED aside

Close ==
    /\ Open
    /\ CloseClient

PrepareFork ==
    /\ Open
    /\ CloseClient

\* Connection.finish_fork: setup_ssh_connection makes a new client and opens a new
\* session on it, which starts in the same directory of the same host
FinishFork ==
    /\ Open
    /\ conn.client + 1 \in Clients
    /\ conn' = [conn EXCEPT !.client = conn.client + 1, !.sftp = conn.client + 1]
    /\ UNCHANGED <<fs, home, handle, made, nops, last>>
    /\ UNCHANGED aside

\* the calls of a Bucket that only read
Reads == Contains \/ Lookup \/ Fetch \/ List \/ GetSize

\* a bucket that is created once and then only stored to, deleted from and read
NextStoreDelete == CreateBucket \/ Store \/ Delete \/ Reads

Next == NextStoreDelete \/ GetBucket \/ DeleteBucket \/ Rename \/ Clear

SpecStoreDelete == Init /\ [][NextStoreDelete]_vars

Spec == Init /\ [][Next]_vars

\* a bucket that is stored to and read while the Connection is closed and
\* established again
NextFork == CreateBucket \/ Store \/ Fetch \/ Close \/ PrepareFork \/ FinishFork

SpecFork == Init /\ [][NextFork]_vars

----------------------------------------------------------------------------
(* The key codec and the path mapper applied on their own, to every key    *)
(* over an alphabet holding the three escaped characters, the characters   *)
(* of the escape codes and a plain one.                                    *)

Alphabet == {Slash, Marker, Nul, "0", "2", "3", "D", "F", "a"}

\* the strings over Alphabet of length n
RECURSIVE StringsOfLen(_)
StringsOfLen(n) ==
    IF n = 0 THEN {<<>>}
    ELSE {<<c>> \o s : c \in Alphabet, s \in StringsOfLen(n - 1)}

CodecKeys == UNION {StringsOfLen(n) : n \in 0..MaxKeyLen}

Digits == <<"0", "1", "2", "3", "4", "5", "6", "7", "8", "9">>

\* keys of the bulk-data namespace: the prefix followed by an object number, or by
\* any string over Alphabet
ShardKeys ==
    {S_data_prefix \o SubSeq(Digits, 1, n) : n \in 0..MaxSuffixLen}
        \cup {S_data_prefix \o s : s \in CodecKeys}

MapperKeys == CodecKeys \cup ShardKeys

\* the bucket is not in use while a function is applied on its own
BucketIdle ==
    /\ home = <<>>
    /\ fs = [dirs |-> {<<>>}, files |-> [q \in {} |-> <<>>]]
    /\ conn = [client |-> 1, sftp |-> 1, closed |-> {}]
    /\ handle = FALSE
    /\ made = NoSession
    /\ nops = 0
    /\ last = [NoCall EXCEPT !.effect = FALSE]

InitMapper ==
    /\ BucketIdle
    /\ exp = NoExpire
    /\ \E k \in MapperKeys : probe = [op |-> "key", key |-> k, out |-> k]

Escape ==
    /\ probe.op = "key"
    /\ probe' = [probe EXCEPT !.op = "escape", !.out = escape(probe.key)]
    /\ UNCHANGED <<bucket_vars, exp>>

Unescape ==
    /\ probe.op = "escape"
    /\ probe' = [probe EXCEPT !.op = "unescape", !.out = unescape(probe.out)]
    /\ UNCHANGED <<bucket_vars, exp>>

KeyToPath ==
    /\ probe.op = "key"
    /\ probe' = [probe EXCEPT !.op = "key_to_path", !.out = map_key(probe.key)]
    /\ UNCHANGED <<bucket_vars, exp>>

NextMapper == Escape \/ Unescape \/ KeyToPath

SpecMapper == InitMapper /\ [][NextMapper]_vars

----------------------------------------------------------------------------
(* contrib/expire_backups.py.  A backup is named by the number simulate    *)
(* gives it; the hypothetical backup process_backups adds to simstate in   *)
(* step n has the key -n, distinct from every backup's name as the integer *)
(* n is from every name in the program.                                    *)

MinOf(S) == CHOOSE x \in S : \A y \in S : x <= y

MaxOf(S) == CHOOSE x \in S : \A y \in S : y <= x

EmptyDict == [x \in {} |-> 0]

\* process_backups, "New backups": every backup in state ages by one for each new
\* backup, taken in sorted order
RECURSIVE add_new(_, _)
add_new(state, new) ==
    IF new = {} THEN state
    ELSE LET With(x) ==
                 add_new([y \in DOMAIN state \cup {x} |-> IF y = x THEN 0 ELSE state[y] + 1],
                         new \ {x})
         IN  With(MinOf(new))

\* process_backups, "Missing backups"
drop_missing(state, backup_list) == [x \in DOMAIN state \cap backup_list |-> state[x]]

\* state as process_backups has it when it starts to look ahead
updated_state(backup_list, state) ==
    drop_missing(add_new(state, backup_list \ DOMAIN state), backup_list)

\* process_backups, "Ranges"
ranges(cycles) ==
    [i \in 1..Len(cycles) |-> IF i = 1 THEN <<0, cycles[1]>> ELSE <<cycles[i - 1], cycles[i]>>]

\* min_ <= age < max_
InRange(age, rg) == rg[1] <= age /\ age < rg[2]

\* look_in_state without `age += step`: the backup's age of now is compared
look_in_state_age_now(state, order, step, rg, sim) ==
    LET Keep(b) ==
            [simstate |-> [k \in DOMAIN sim.simstate \cup {b}
                             |-> IF k = b THEN state[b] ELSE sim.simstate[k]],
             keep     |-> sim.keep \cup {b}]
        First(found) == IF found = {} THEN sim ELSE Keep(order[MinOf(found)])
    IN  First({j \in 1..Len(order) : InRange(state[order[j]], rg)})

\* "Look in state": the first backup, in the order state is iterated in, whose age
\* step cycles from now is in the range, is kept
look_in_state(state, order, step, rg, sim) ==
    LET Keep(b) ==
            [simstate |-> [k \in DOMAIN sim.simstate \cup {b}
                             |-> IF k = b THEN state[b] + step ELSE sim.simstate[k]],
             keep     |-> sim.keep \cup {b}]
        First(found) == IF found = {} THEN sim ELSE Keep(order[MinOf(found)])
    IN  First({j \in 1..Len(order) : InRange(state[order[j]] + step, rg)})

\* the loop over the ranges in one step of the look-ahead
RECURSIVE for_ranges(_, _, _, _, _)
for_ranges(state, order, step, rgs, sim) ==
    IF rgs = <<>> THEN sim
    ELSE IF \E k \in DOMAIN sim.simstate : InRange(sim.simstate[k], Head(rgs))
         THEN for_ranges(state, order, step, Tail(rgs), sim)
         ELSE for_ranges(state, order, step, Tail(rgs),
                         look_in_state(state, order, step, Head(rgs), sim))

\* the start of a step: simstate ages, and gets the backup made "just now"
aged(simstate, step) ==
    [k \in DOMAIN simstate \cup (IF step # 0 THEN {-step} ELSE {})
       |-> IF k \in DOMAIN simstate THEN simstate[k] + 1 ELSE 0]

\* the look-ahead loop: the backups to keep
RECURSIVE for_steps(_, _, _, _, _, _)
for_steps(state, order, rgs, step, nsteps, sim) ==
    IF step >= nsteps THEN sim.keep
    ELSE for_steps(state, order, rgs, step + 1, nsteps,
                   for_ranges(state, order, step, rgs,
                              [simstate |-> aged(sim.simstate, step), keep |-> sim.keep]))

\* process_backups; order is the order in which state.iteritems() goes through the
\* dictionary during the call
process_backups(backup_list, state0, cycles, order) ==
    LET Kept(state, keep) ==
            [state     |-> [x \in DOMAIN state \cap keep |-> state[x]],
             to_delete |-> DOMAIN state \ keep]
        Ahead(state) ==
            Kept(state,
                 for_steps(state, order, ranges(cycles), 0,
                           MaxOf({cycles[i] : i \in 1..Len(cycles)}),
                           [simstate |-> EmptyDict, keep |-> {}]))
    IN  Ahead(updated_state(backup_list, state0))

\* the orders a dictionary with the keys S can be iterated in
RECURSIVE Orders(_)
Orders(S) ==
    IF S = {} THEN {<<>>}
    ELSE UNION {{<<x>> \o o : o \in Orders(S \ {x})} : x \in S}

\* the increasing lists of boundaries up to n
RECURSIVE CycleLists(_)
CycleLists(n) ==
    IF n = 0 THEN {<<>>}
    ELSE CycleLists(n - 1)
            \cup {Append(c, n) : c \in CycleLists(n - 1)}

\* simulate, before its loop
InitExpire ==
    /\ BucketIdle
    /\ probe = NoProbe
    /\ \E c \in CycleLists(MaxAge) \ {<<>>} :
          exp = [cycles |-> c, state |-> EmptyDict, backup_list |-> {}, n |-> 0]

\* one turn of simulate's loop
SimulateCycle ==
    /\ exp.n < MaxBackups
    /\ \E order \in Orders(DOMAIN updated_state(exp.backup_list \cup {exp.n}, exp.state)) :
          LET Deleted(backup_list, r) ==
                  exp' = [exp EXCEPT !.state = r.state,
                                     !.backup_list = backup_list \ r.to_delete,
                                     !.n = exp.n + 1]
              Added(backup_list) ==
                  Deleted(backup_list,
                          process_backups(backup_list, exp.state, exp.cycles, order))
          IN  Added(exp.backup_list \cup {exp.n})
    /\ UNCHANGED <<bucket_vars, probe>>

NextExpire == SimulateCycle

SpecExpire == InitExpire /\ [][NextExpire]_vars

----------------------------------------------------------------------------
(* Properties.                                                             *)

\* the bucket's directory exists and is empty
FreshBucket(f) == Resolve(BucketName) \in f.dirs /\ Children(f, Resolve(BucketName)) = {}

\* what fetch answers when it returns payload and metadata
Fetched(payload, metadata) == [err |-> "ok", payload |-> payload, metadata |-> metadata]

\* the elements of seq are exactly those of S, each once
IsExactly(seq, S) == Len(seq) = Cardinality(S) /\ {seq[j] : j \in 1..Len(seq)} = S

RECURSIVE PayloadBytes(_, _)
\* the payload bytes fetch returns for the keys of S, added up
PayloadBytes(f, S) ==
    IF S = {} THEN 0
    ELSE LET k == CHOOSE x \in S : TRUE
         IN  Len(raw_fetch(f, k).payload) + PayloadBytes(f, S \ {k})

\* C1: in a freshly created (empty) bucket, store(k, payload, meta) succeeds for
\* every key, flat or sharded, and fetch(k) then returns that payload and metadata.
C1_StoreFetchRoundTrip ==
    [][(last'.op = "store" /\ FreshBucket(fs))
         => /\ last'.err = "ok"
            /\ raw_fetch(fs', last'.key) = Fetched(last'.arg.payload, last'.arg.metadata)]_vars

\* C2: rename(x, y) with x # y and an object stored at x succeeds; afterwards x is
\* not contained, y is, and fetch(y) returns what fetch(x) returned before.
C2_RenameMovesObject ==
    [][(/\ last'.op = "rename"
        /\ last'.key # last'.arg.dest
        /\ raw_fetch(fs, last'.key).err = "ok")
         => /\ last'.err = "ok"
            /\ ~contains(fs', last'.key)
            /\ contains(fs', last'.arg.dest)
            /\ raw_fetch(fs', last'.arg.dest) = raw_fetch(fs, last'.key)]_vars

\* C3: rename(x, y) with no object stored at x fails with KeyNotFound (KeyError)
\* and leaves every file and directory of the remote as it was.
C3_RenameAbsentFails ==
    [][(last'.op = "rename" /\ ~contains(fs, last'.key))
         => (last'.err = "KeyError" /\ fs' = fs)]_vars

\* C4: delete(k, force) of a key with no object in the bucket fails with
\* KeyNotFound (KeyError) when force is false and returns without error when it is true.
C4_DeleteAbsent ==
    (last.op = "delete" /\ last.key \notin last.pre.objects)
        => last.err = (IF last.arg.force THEN "ok" ELSE "KeyError")

\* C5: delete(k, force) of a key that has an object succeeds for either value of
\* force, and afterwards contains(k) is false and fetchMetadata(k) fails with KeyNotFound.
C5_DeletePresent ==
    (last.op = "delete" /\ last.key \in last.pre.objects)
        => /\ last.err = "ok"
           /\ ~contains(fs, last.key)
           /\ raw_lookup(fs, last.key).err = "KeyError"

\* C5 witness: an unforced delete of the sharded key, which was present, has returned.
C5_Witness ==
    /\ last.op = "delete"
    /\ last.key = K_s7
    /\ last.key \in last.pre.objects
    /\ ~last.arg.force
    /\ last.err = "ok"

\* C6: in every state reached by store and delete, list(p) ends without error for
\* every prefix p and yields exactly the stored keys that start with p, each once
\* (nothing when no stored key starts with p).
C6_ListExact ==
    handle => \A p \in Prefixes :
                 /\ list(fs, p).err = "ok"
                 /\ IsExactly(list(fs, p).keys, {k \in Present(fs) : StartsWith(k, p)})

\* C7: in every state reached by store, overwrite and delete, getSize() is the sum
\* of the payload lengths of the keys present, at every shard depth, metadata files
\* not counted; the payload of a key just stored is the one that was passed.
C7_SizeIsSumOfPayloads ==
    handle => /\ get_size(fs) = [err |-> "ok", size |-> PayloadBytes(fs, Present(fs))]
              /\ (last.op = "store" /\ last.err = "ok")
                    => raw_fetch(fs, last.key).payload = last.arg.payload

\* C7 witness: an overwrite with the shorter payload has left a flat and a sharded
\* key, one byte each.
C7_Witness ==
    /\ last.op = "store"
    /\ last.key \in last.pre.keys
    /\ last.arg.payload = <<9>>
    /\ Present(fs) = {K_a, K_s7}
    /\ get_size(fs).size = 2

\* C8: deleteBucket(name, recursive=false) on an existing bucket that holds an
\* object fails with NotEmpty and removes nothing; deleteBucket on a name that does
\* not exist fails with NotFound (KeyError).
C8_DeleteBucketGuards ==
    [][(last'.op = "delete_bucket")
         => /\ (~last'.arg.recursive /\ last'.pre.bucket /\ last'.pre.keys # {})
                  => (last'.err = "NotEmpty" /\ fs' = fs)
            /\ ~last'.pre.bucket => last'.err = "KeyError"]_vars

\* C8 witness: a non-recursive deleteBucket of a bucket holding the sharded key failed.
C8_Witness ==
    /\ last.op = "delete_bucket"
    /\ ~last.arg.recursive
    /\ last.err = "NotEmpty"
    /\ K_s7 \in last.pre.keys
    /\ Present(fs) = last.pre.keys

\* C9: deleteBucket(name, recursive=true) on an existing bucket, whatever flat and
\* sharded objects it holds, succeeds; afterwards containsPath(name) is false and
\* openBucket(name) fails with NotFound (KeyError).
C9_DeleteBucketRecursive ==
    (last.op = "delete_bucket" /\ last.arg.recursive /\ last.pre.bucket)
        => /\ last.err = "ok"
           /\ ~conn_contains(fs, BucketName)
           /\ get_bucket(fs, BucketName) = "KeyError"

\* C9 witness: a recursive deleteBucket of a bucket that held a flat key and the
\* key two shard directories deep has returned.
C9_Witness ==
    /\ last.op = "delete_bucket"
    /\ last.arg.recursive
    /\ last.err = "ok"
    /\ {K_a, K_s7} \subseteq last.pre.keys

\* C10: store(k, p1, m1) followed by store(k, p2, m2) leaves exactly one object at
\* k: list yields k once, fetch(k) returns (p2, m2), and getSize() counts Len(p2) for k.
C10_OverwriteLeavesOne ==
    [][(last.op = "store" /\ last'.op = "store" /\ last'.key = last.key)
         => /\ Cardinality({j \in 1..Len(list(fs', <<>>).keys) :
                               list(fs', <<>>).keys[j] = last'.key}) = 1
            /\ raw_fetch(fs', last'.key) = Fetched(last'.arg.payload, last'.arg.metadata)
            /\ get_size(fs').size
                  = Len(last'.arg.payload) + PayloadBytes(fs', Present(fs') \ {last'.key})]_vars

\* the escaped forms of the keys shorter than three characters
ShortEscapes == [k \in UNION {StringsOfLen(n) : n \in 0..2} |-> escape(k)]

\* C11: for every key over the alphabet, unescape(escape(k)) = k; the escaped form
\* of a key differs from that of every other key, and holds neither '/' nor the
\* null character.
C11_CodecRoundTrip ==
    /\ probe.op = "unescape" => probe.out = probe.key
    /\ probe.op = "escape" =>
          /\ \A j \in 1..Len(probe.out) : probe.out[j] \notin {Slash, Nul}
          /\ \A k \in DOMAIN ShortEscapes : k # probe.key => ShortEscapes[k] # probe.out

\* C11 witness: a key holding the marker, the separator, the null character and no
\* other has been escaped and unescaped.
C11_Witness ==
    /\ probe.op = "unescape"
    /\ {probe.key[j] : j \in 1..Len(probe.key)} = {Slash, Marker, Nul}

\* the components joined by '/'
RECURSIVE SlashPath(_)
SlashPath(parts) ==
    IF Len(parts) = 1 THEN Head(parts)
    ELSE Head(parts) \o <<Slash>> \o SlashPath(Tail(parts))

\* the path of a bulk-data key whose suffix no is sharded into ndirs directories
ShardedPath(key, no, ndirs) ==
    SlashPath(<<BucketName, S_data_dir>> \o [j \in 1..ndirs |-> Take(no, 3 * j)] \o <<key>>)

\* the path the mapper is said to give a key whose escaped form is key, with
\* StepsOf(n) directories for a suffix of n characters
PathAsStated(key, StepsOf(_)) ==
    IF ~StartsWith(key, S_data_prefix) THEN BucketName \o <<Slash>> \o key
    ELSE ShardedPath(key, Drop(key, 10), StepsOf(Len(key) - 10))

\* C12 as stated: a flat key maps to <bucket>/<escaped key>; a bulk-data key maps to
\* <bucket>/s3ql_data/, one directory per 3-character step of its suffix ('012' and
\* '012345' for the suffix "012345"), then the escaped key.
C12_PathAsStated ==
    probe.op = "key_to_path"
        => probe.out = PathAsStated(escape(probe.key), LAMBDA n : n \div 3)

\* C12 amended: the directories are the slices of 3, 6, ... characters that are
\* shorter than the suffix; for the suffix "012345" the only directory is '012'.
C12_PathBelowSuffix ==
    /\ probe.op = "key_to_path"
          => probe.out = PathAsStated(escape(probe.key), LAMBDA n : (n - 1) \div 3)
    /\ (probe.op = "key_to_path" /\ probe.key = S_data_prefix \o SubSeq(Digits, 1, 6))
          => probe.out = BucketName \o <<Slash>> \o S_data_dir \o <<Slash>>
                            \o <<"0", "1", "2">> \o <<Slash>> \o probe.key

\* C12 witness: the key with the suffix "012345" has been mapped.
C12_Witness ==
    /\ probe.op = "key_to_path"
    /\ probe.key = S_data_prefix \o SubSeq(Digits, 1, 6)

\* C13: after any sequence of completed calls, for every key the data file exists
\* if and only if the metadata file exists.
C13_DataMetaPaired ==
    \A k \in Keys : conn_contains(fs, key_to_path(k) \o S_dat)
                        <=> conn_contains(fs, key_to_path(k) \o S_meta)

\* C14: a Bucket made before the Connection was closed and established again goes
\* through the session the Connection has now, which is not a closed one, and a
\* fetch of the key just stored returns what was stored.
C14_HandleSurvivesFork ==
    [][(/\ last' # last
        /\ last'.op \in {"store", "fetch"}
        /\ made # conn.sftp
        /\ conn.sftp \notin conn.closed)
         => /\ last'.session = conn.sftp
            /\ last'.err # "Closed"
            /\ (last.op = "store" /\ last.err = "ok" /\ last'.op = "fetch"
                   /\ last'.key = last.key)
                  => (last'.err = "ok" /\ last'.ret = last.arg)]_vars

\* C14 witness: the key stored before the Connection was closed and established
\* again has been fetched through the Bucket made before.
C14_Witness ==
    /\ last.op = "fetch"
    /\ last.err = "ok"
    /\ last.key \in last.pre.keys
    /\ made \in conn.closed
    /\ last.session # made

\* C15: once at least max(cycles) backups have been made, after every turn each
\* age range holds one of the remaining backups, whichever order the state
\* dictionary was iterated in.
C15_EveryRangeCovered ==
    (exp.cycles # <<>> /\ exp.n >= exp.cycles[Len(exp.cycles)])
        => \A i \in 1..Len(exp.cycles) :
              \E b \in exp.backup_list : InRange(exp.state[b], ranges(exp.cycles)[i])

\* C15 witness: with three age ranges, the widest of two cycles, more backups have
\* been made than the largest boundary and fewer are left than were made.
C15_Witness ==
    /\ exp.cycles = <<1, 2, 4>>
    /\ exp.n > 4
    /\ Cardinality(exp.backup_list) < exp.n

\* the number of opens of the data file in a log of raw_store
OpensIn(log) == Cardinality({j \in 1..Len(log) : log[j][1] = "open_dat"})

\* C16: a store opens the data file at most twice; it opens it a second time exactly
\* when the first open failed with NotFound and _makedirs then returned, having
\* created directories; any other failure of the first open is the outcome of the
\* store, with nothing created; a failure of the second open is the outcome of the
\* store, with no further open.
C16_OpenRetriedOnce ==
    (last.op = "store" /\ last.err # "Closed")
        => /\ last.ret[1][1] = "open_dat"
           /\ OpensIn(last.ret) <= 2
           /\ OpensIn(last.ret) = 2
                 <=> (/\ Len(last.ret) = 3
                      /\ last.ret[1] = <<"open_dat", "NotFound">>
                      /\ last.ret[2] = <<"makedirs", "ok">>
                      /\ last.ret[3][1] = "open_dat"
                      /\ last.effect)
           /\ last.ret[1][2] \notin {"ok", "NotFound"}
                 => (last.ret = <<<<"open_dat", last.err>>>> /\ ~last.effect)
           /\ (OpensIn(last.ret) = 2 /\ last.ret[3][2] # "ok") => last.err = last.ret[3][2]

\* C16 witness: a store whose first open failed with NotFound has made the shard
\* directories and opened the data file a second time, with success.
C16_Witness ==
    /\ last.op = "store"
    /\ last.err = "ok"
    /\ last.ret = <<<<"open_dat", "NotFound">>, <<"makedirs", "ok">>, <<"open_dat", "ok">>>>

\* C17: _makedirs(p), called with a path of the path mapper of which a component is
\* missing, creates the missing components and p is contained afterwards through
\* the same session, whatever the start directory of the session; it fails with
\* AlreadyExists, having created nothing, only when every component exists. Stated
\* for the call raw_store makes after its first open answered NotFound, which is
\* the answer to an open below a missing directory.
C17_MakedirsCreatesPath ==
    (last.op = "store" /\ Len(last.ret) >= 2)
        => /\ last.ret[2] = <<"makedirs", "ok">>
           /\ conn_contains(fs, os_path_dirname(key_to_path(last.key)))

\* the entries of f below the bucket directory
BelowBucket(f) == {q \in f.dirs \cup DOMAIN f.files : Below(q, Resolve(BucketName))}

\* the removal calls of log are issued on entries with nothing below them, each
\* entry of S is removed by one call, and by an earlier call than the entry it
\* is below
RemovedBottomUp(log, S) ==
    /\ \A j \in 1..Len(log) : log[j].empty
    /\ \A q \in S : Cardinality({j \in 1..Len(log) : log[j].path = q}) = 1
    /\ \A i, j \in 1..Len(log) : Below(log[i].path, log[j].path) => i < j

\* C18: a recursive purge (delete_bucket with recursive, or clear) of an existing
\* bucket returns, having issued every rmdir on a directory that was empty at that
\* moment and having removed every file and subdirectory before the directory that
\* holds it; delete_bucket removes the bucket directory by its last call, and clear
\* never names it.
C18_PurgeBottomUp ==
    [][(/\ last' # last
        /\ last'.pre.bucket
        /\ last'.err # "Closed"
        /\ last'.op = "clear" \/ (last'.op = "delete_bucket" /\ last'.arg.recursive))
         => /\ last'.err = "ok"
            /\ BelowBucket(fs') = {}
            /\ IF last'.op = "clear"
               THEN /\ RemovedBottomUp(last'.ret, BelowBucket(fs))
                    /\ Len(last'.ret) = Cardinality(BelowBucket(fs))
               ELSE /\ RemovedBottomUp(last'.ret, BelowBucket(fs) \cup {Resolve(BucketName)})
                    /\ Len(last'.ret) = Cardinality(BelowBucket(fs)) + 1
                    /\ last'.ret[Len(last'.ret)].call = "rmdir"
                    /\ last'.ret[Len(last'.ret)].path = Resolve(BucketName)]_vars

\* C18 witness: a recursive delete_bucket has removed a bucket that held a flat
\* object and an object two shard directories deep, by more than eight calls.
C18_Witness ==
    /\ last.op = "delete_bucket"
    /\ last.arg.recursive
    /\ last.err = "ok"
    /\ {K_a, K_s7} \subseteq last.pre.keys
    /\ Len(last.ret) >= 8
    /\ \E j \in 1..Len(last.ret) : last.ret[j].call = "rmdir" /\ Len(last.ret[j].path) = 4

\* what clear leaves of an existing bucket: the bucket directory, with nothing
\* below it
Cleared(f) ==
    /\ BelowBucket(f) = {}
    /\ list(f, <<>>) = [err |-> "ok", keys |-> <<>>]
    /\ get_size(f) = [err |-> "ok", size |-> 0]
    /\ get_bucket(f, BucketName) = "ok"

\* C19: clear on an existing bucket, whatever flat and sharded objects it holds,
\* removes every object and every shard directory and keeps the bucket directory:
\* list('') yields nothing, get_size is 0 and get_bucket succeeds; a store that
\* follows it succeeds and a fetch of its key returns what was stored.
C19_ClearKeepsBucket ==
    [][/\ (last' # last /\ last'.op = "clear" /\ last'.pre.bucket)
            => (last'.err = "ok" /\ Cleared(fs'))
       /\ (last.op = "clear" /\ last.err = "ok" /\ last'.op = "store")
            => /\ last'.err = "ok"
               /\ raw_fetch(fs', last'.key)
                     = Fetched(last'.arg.payload, last'.arg.metadata)]_vars

\* what the calls that read key answer on f
ReadsOf(f, key) == <<contains(f, key), raw_fetch(f, key), raw_lookup(f, key)>>

\* C20: a store or a delete of one key leaves what contains, fetch and lookup
\* answer for every other key as it was, the other key being one that is stored,
\* one that differs in escaped characters only, or one that spells a shard
\* directory; the paths of two keys differ.
C20_OtherKeysUntouched ==
    [][(last' # last /\ last'.op \in {"store", "delete"} /\ last'.err # "Closed")
         => \A k2 \in (Keys \cup Bystanders) \ {last'.key} :
               /\ key_to_path(k2) # key_to_path(last'.key)
               /\ ReadsOf(fs', k2) = ReadsOf(fs, k2)]_vars

\* C20 witness: the object two shard directories deep has been deleted while the
\* flat object 's3ql_data' is held.
C20_Witness ==
    /\ last.op = "delete"
    /\ last.key = K_s7
    /\ last.err = "ok"
    /\ last.pre.keys = {K_s7, K_flat_data}
    /\ Present(fs) = {K_flat_data}
    /\ raw_fetch(fs, K_flat_data).err = "ok"

====
